---- MODULE Spec2Model ----
(***************************************************************************)
(* Model of xrono's Duration (src/src/duration.rs) over TimeInt = u64      *)
(* (src/src/units.rs).                                                     *)
(*                                                                         *)
(* TimeInt values are 64 bits wide and PICOS_PER_SEC is 10^12, so they are *)
(* kept as exact naturals written in base 1000: a natural is the sequence  *)
(* of its three-digit groups, least significant group first, without a     *)
(* leading zero group (zero is << >>).  Num(<<1, 0, 0, 0, 0>>) is          *)
(* 1_000_000_000_000.  Arithmetic on TimeInt is the exact operation        *)
(* followed by reduction modulo 2^64, together with a flag that says       *)
(* whether the exact result left the u64 range: a build with overflow      *)
(* checks panics there, a build without them keeps the wrapped value.      *)
(*                                                                         *)
(* The source is read as it is meant where rustc would reject it: the      *)
(* comparison written "=>" in calc_picos_secs is >=, picos.abs() of an     *)
(* unsigned value is the value, the "fn add" of the two Sub impls is sub,  *)
(* the negation of a u64 field is 0 - field, and the u32 subsec_nanos() is *)
(* widened to TimeInt before it is multiplied.  The values of              *)
(* crate::constants, which is not among the sources, are those of the      *)
(* specification (section 4.1).                                            *)
(***************************************************************************)
EXTENDS Integers, Sequences, FiniteSets, TLC

----------------------------------------------------------------------------
(* Exact naturals in base 1000.                                            *)

Base == 1000

RECURSIVE Norm(_)
Norm(s) == IF s = << >> THEN << >>
           ELSE IF s[Len(s)] = 0 THEN Norm(SubSeq(s, 1, Len(s) - 1))
           ELSE s

RECURSIVE Reverse(_)
Reverse(s) == IF s = << >> THEN << >>
              ELSE Append(Reverse(Tail(s)), Head(s))

\* Num(<<18, 446, 744>>) is the natural 18_446_744.
Num(groups) == Norm(Reverse(groups))

Zero == << >>
One  == <<1>>

Limb(s, i) == IF i <= Len(s) THEN s[i] ELSE 0

MaxOf(x, y) == IF x >= y THEN x ELSE y

RECURSIVE AddFrom(_, _, _, _)
AddFrom(a, b, i, carry) ==
    IF i > MaxOf(Len(a), Len(b))
    THEN (IF carry = 0 THEN << >> ELSE <<carry>>)
    ELSE LET t == Limb(a, i) + Limb(b, i) + carry
         IN  <<t % Base>> \o AddFrom(a, b, i + 1, t \div Base)

NAdd(a, b) == AddFrom(a, b, 1, 0)

RECURSIVE CmpFrom(_, _, _)
\* -1, 0, 1 comparing the groups i, i-1, .. 1 of a and b
CmpFrom(a, b, i) ==
    IF i = 0 THEN 0
    ELSE IF Limb(a, i) < Limb(b, i) THEN -1
    ELSE IF Limb(a, i) > Limb(b, i) THEN 1
    ELSE CmpFrom(a, b, i - 1)

NCmp(a, b) == CmpFrom(a, b, MaxOf(Len(a), Len(b)))
NLt(a, b) == NCmp(a, b) = -1
NLe(a, b) == NCmp(a, b) # 1

RECURSIVE SubFrom(_, _, _, _)
SubFrom(a, b, i, borrow) ==
    IF i > Len(a) THEN << >>
    ELSE LET t == Limb(a, i) - Limb(b, i) - borrow
         IN  IF t < 0 THEN <<t + Base>> \o SubFrom(a, b, i + 1, 1)
                      ELSE <<t>> \o SubFrom(a, b, i + 1, 0)

\* a - b for a >= b
NSub(a, b) == Norm(SubFrom(a, b, 1, 0))

RECURSIVE MulSmallFrom(_, _, _, _)
MulSmallFrom(a, m, i, carry) ==
    IF i > Len(a)
    THEN (IF carry = 0 THEN << >>
          ELSE <<carry % Base>> \o MulSmallFrom(a, m, i, carry \div Base))
    ELSE LET t == a[i] * m + carry
         IN  <<t % Base>> \o MulSmallFrom(a, m, i + 1, t \div Base)

\* a * m for an integer 0 <= m < 2 000 000
NMulSmall(a, m) == Norm(MulSmallFrom(a, m, 1, 0))

\* a * 1000^k and a div 1000^k
NShl(a, k) == IF a = << >> THEN << >> ELSE [i \in 1..k |-> 0] \o a
NShr(a, k) == IF k >= Len(a) THEN << >> ELSE SubSeq(a, k + 1, Len(a))

RECURSIVE MulFrom(_, _, _)
MulFrom(a, b, i) ==
    IF i > Len(b) THEN << >>
    ELSE NAdd(NShl(NMulSmall(a, b[i]), i - 1), MulFrom(a, b, i + 1))

NMul(a, b) == MulFrom(a, b, 1)

RECURSIVE DivSmallFrom(_, _, _, _)
\* short division, most significant group first; yields <<quotient, rem>>
DivSmallFrom(a, d, i, rem) ==
    IF i = 0 THEN <<<< >>, rem>>
    ELSE LET t    == rem * Base + a[i]
             rest == DivSmallFrom(a, d, i - 1, t % d)
         IN  <<Append(rest[1], t \div d), rest[2]>>

\* a div d for an integer 0 < d < 2 000 000
NDivSmall(a, d) == Norm(DivSmallFrom(a, d, Len(a), 0)[1])

RECURSIVE LowZeros(_)
LowZeros(d) == IF d # << >> /\ d[1] = 0 THEN 1 + LowZeros(Tail(d)) ELSE 0

RECURSIVE ToInt(_)
ToInt(s) == IF s = << >> THEN 0 ELSE s[1] + Base * ToInt(Tail(s))

\* a div d and a mod d for a divisor d = m * 1000^k with 0 < m < 2 000 000
NDiv(a, d) == LET k == LowZeros(d)
              IN  NDivSmall(NShr(a, k), ToInt(NShr(d, k)))
NMod(a, d) == NSub(a, NMul(NDiv(a, d), d))

----------------------------------------------------------------------------
(* TimeInt = u64 (units.rs:1).                                             *)

Two16 == Num(<<65, 536>>)
Two32 == NMul(Two16, Two16)
Two64 == NMul(Two32, Two32)
U64Max == NSub(Two64, One)

\* the exact natural x does not fit TimeInt
Overflows(x) == NLe(Two64, x)

\* x mod 2^64
Wrap(x) ==
    IF ~Overflows(x) THEN x
    ELSE LET q == NDivSmall(NDivSmall(NDivSmall(NDivSmall(x, 65536), 65536), 65536), 65536)
         IN  NSub(x, NMul(q, Two64))

\* wrapped results of +, -, * on TimeInt, and whether the exact result
\* left the u64 range ("attempt to ... with overflow")
WAdd(x, y) == Wrap(NAdd(x, y))
OAdd(x, y) == Overflows(NAdd(x, y))
WSub(x, y) == IF NLt(x, y) THEN NSub(NAdd(x, Two64), y) ELSE NSub(x, y)
OSub(x, y) == NLt(x, y)
WMul(x, y) == Wrap(NMul(x, y))
OMul(x, y) == Overflows(NMul(x, y))

----------------------------------------------------------------------------
(* crate::constants (imported at duration.rs:3).                           *)

SECS_PER_WEEK   == Num(<<604, 800>>)
SECS_PER_DAY    == Num(<<86, 400>>)
SECS_PER_HOUR   == Num(<<3, 600>>)
SECS_PER_MINUTE == Num(<<60>>)
MILLIS_PER_SEC  == Num(<<1, 0>>)
MICROS_PER_SEC  == Num(<<1, 0, 0>>)
NANOS_PER_SEC   == Num(<<1, 0, 0, 0>>)
PICOS_PER_SEC   == Num(<<1, 0, 0, 0, 0>>)
PICOS_PER_MILLI == Num(<<1, 0, 0, 0>>)
PICOS_PER_MICRO == Num(<<1, 0, 0>>)
PICOS_PER_NANO  == Num(<<1, 0>>)

----------------------------------------------------------------------------
(* struct Duration and its functions.  Each function yields val, the value *)
(* computed with wrapping arithmetic, and ovf, whether one of its          *)
(* arithmetic operations overflowed.                                       *)

Duration(s, p) == [secs |-> s, picos |-> p]

from_weeks(n) ==
    [val |-> Duration(WMul(n, SECS_PER_WEEK), Zero), ovf |-> OMul(n, SECS_PER_WEEK)]

from_days(n) ==
    [val |-> Duration(WMul(n, SECS_PER_DAY), Zero), ovf |-> OMul(n, SECS_PER_DAY)]

from_hours(n) ==
    [val |-> Duration(WMul(n, SECS_PER_HOUR), Zero), ovf |-> OMul(n, SECS_PER_HOUR)]

from_minutes(n) ==
    [val |-> Duration(WMul(n, SECS_PER_MINUTE), Zero), ovf |-> OMul(n, SECS_PER_MINUTE)]

from_secs(n) ==
    [val |-> Duration(n, Zero), ovf |-> FALSE]

from_millis(n) ==
    [val |-> Duration(NDiv(n, MILLIS_PER_SEC),
                      WMul(NMod(n, MILLIS_PER_SEC), PICOS_PER_MILLI)),
     ovf |-> OMul(NMod(n, MILLIS_PER_SEC), PICOS_PER_MILLI)]

from_micros(n) ==
    [val |-> Duration(NDiv(n, MICROS_PER_SEC),
                      WMul(NMod(n, MICROS_PER_SEC), PICOS_PER_MICRO)),
     ovf |-> OMul(NMod(n, MICROS_PER_SEC), PICOS_PER_MICRO)]

from_nanos(n) ==
    [val |-> Duration(NDiv(n, NANOS_PER_SEC),
                      WMul(NMod(n, NANOS_PER_SEC), PICOS_PER_NANO)),
     ovf |-> OMul(NMod(n, NANOS_PER_SEC), PICOS_PER_NANO)]

from_picos(n) ==
    [val |-> Duration(NDiv(n, PICOS_PER_SEC), NMod(n, PICOS_PER_SEC)), ovf |-> FALSE]

as_weeks(self)   == [val |-> NDiv(self.secs, SECS_PER_WEEK), ovf |-> FALSE]
as_days(self)    == [val |-> NDiv(self.secs, SECS_PER_DAY), ovf |-> FALSE]
as_hours(self)   == [val |-> NDiv(self.secs, SECS_PER_HOUR), ovf |-> FALSE]
as_minutes(self) == [val |-> NDiv(self.secs, SECS_PER_MINUTE), ovf |-> FALSE]
as_secs(self)    == [val |-> self.secs, ovf |-> FALSE]

as_millis(self) ==
    LET ms == WMul(self.secs, MILLIS_PER_SEC)
        lo == NDiv(self.picos, PICOS_PER_MILLI)
    IN  [val |-> WAdd(ms, lo),
         ovf |-> OMul(self.secs, MILLIS_PER_SEC) \/ OAdd(ms, lo)]

as_micros(self) ==
    LET us == WMul(self.secs, MICROS_PER_SEC)
        lo == NDiv(self.picos, PICOS_PER_MICRO)
    IN  [val |-> WAdd(us, lo),
         ovf |-> OMul(self.secs, MICROS_PER_SEC) \/ OAdd(us, lo)]

as_nanos(self) ==
    LET ns == WMul(self.secs, NANOS_PER_SEC)
        lo == NDiv(self.picos, PICOS_PER_NANO)
    IN  [val |-> WAdd(ns, lo),
         ovf |-> OMul(self.secs, NANOS_PER_SEC) \/ OAdd(ns, lo)]

\* as_picos with the sub-second part scaled as in as_nanos
as_picos_scaled(self) ==
    LET ps == WMul(self.secs, PICOS_PER_SEC)
        lo == NDiv(self.picos, PICOS_PER_NANO)
    IN  [val |-> WAdd(ps, lo),
         ovf |-> OMul(self.secs, PICOS_PER_SEC) \/ OAdd(ps, lo)]

as_picos(self) ==
    LET ps == WMul(self.secs, PICOS_PER_SEC)
    IN  [val |-> WAdd(ps, self.picos),
         ovf |-> OMul(self.secs, PICOS_PER_SEC) \/ OAdd(ps, self.picos)]

\* cmp comparing the picoseconds first
cmp_picos_first(self, other) ==
    LET s == NCmp(self.secs, other.secs)
        p == NCmp(self.picos, other.picos)
        o == IF p # 0 THEN p ELSE s
    IN  IF o = -1 THEN "Less" ELSE IF o = 0 THEN "Equal" ELSE "Greater"

\* Ord for Duration: seconds first, then picoseconds
cmp(self, other) ==
    LET s == NCmp(self.secs, other.secs)
        p == NCmp(self.picos, other.picos)
        o == IF s # 0 THEN s ELSE p
    IN  IF o = -1 THEN "Less" ELSE IF o = 0 THEN "Equal" ELSE "Greater"

\* the variants of PreciseTime
Units == <<"Picoseconds", "Nanoseconds", "Microseconds", "Milliseconds",
           "Seconds", "Minutes", "Hours", "Days", "Weeks">>

\* From<PreciseTime> for Duration; a PreciseTime is [unit, n]
from_precise(t) ==
    CASE t.unit = "Picoseconds"  -> from_picos(t.n)
      [] t.unit = "Nanoseconds"  -> from_nanos(t.n)
      [] t.unit = "Microseconds" -> from_micros(t.n)
      [] t.unit = "Milliseconds" -> from_millis(t.n)
      [] t.unit = "Seconds"      -> from_secs(t.n)
      [] t.unit = "Minutes"      -> from_minutes(t.n)
      [] t.unit = "Hours"        -> from_hours(t.n)
      [] t.unit = "Days"         -> from_days(t.n)
      [] t.unit = "Weeks"        -> from_weeks(t.n)

\* From<std::time::Duration>; dur is [secs, nanos] with nanos < 10^9
from_std(dur) ==
    [val |-> Duration(dur.secs, WMul(dur.nanos, PICOS_PER_NANO)),
     ovf |-> OMul(dur.nanos, PICOS_PER_NANO)]

\* the accessor of a unit
as_unit(self, unit) ==
    CASE unit = "Picoseconds"  -> as_picos(self)
      [] unit = "Nanoseconds"  -> as_nanos(self)
      [] unit = "Microseconds" -> as_micros(self)
      [] unit = "Milliseconds" -> as_millis(self)
      [] unit = "Seconds"      -> as_secs(self)
      [] unit = "Minutes"      -> as_minutes(self)
      [] unit = "Hours"        -> as_hours(self)
      [] unit = "Days"         -> as_days(self)
      [] unit = "Weeks"        -> as_weeks(self)

\* calc_picos_secs carrying only above one second
calc_picos_secs_strict(picos) ==
    IF NLt(PICOS_PER_SEC, picos)
    THEN [picos |-> NMod(picos, PICOS_PER_SEC), picos_secs |-> NDiv(picos, PICOS_PER_SEC)]
    ELSE [picos |-> picos, picos_secs |-> Zero]

\* picos.abs() of an unsigned TimeInt is picos
calc_picos_secs(picos) ==
    IF NLe(PICOS_PER_SEC, picos)
    THEN [picos |-> NMod(picos, PICOS_PER_SEC), picos_secs |-> NDiv(picos, PICOS_PER_SEC)]
    ELSE [picos |-> picos, picos_secs |-> Zero]

\* add returning the sub-second sum as it was before calc_picos_secs
add_raw_picos(self, other) ==
    LET picos == WAdd(self.picos, other.picos)
        c     == calc_picos_secs(picos)
        s1    == WAdd(self.secs, other.secs)
    IN  [val |-> Duration(WAdd(s1, c.picos_secs), picos),
         ovf |-> \/ OAdd(self.picos, other.picos)
                 \/ OAdd(self.secs, other.secs)
                 \/ OAdd(s1, c.picos_secs)]

\* Add for Duration
add(self, other) ==
    LET picos == WAdd(self.picos, other.picos)
        c     == calc_picos_secs(picos)
        s1    == WAdd(self.secs, other.secs)
    IN  [val |-> Duration(WAdd(s1, c.picos_secs), c.picos),
         ovf |-> \/ OAdd(self.picos, other.picos)
                 \/ OAdd(self.secs, other.secs)
                 \/ OAdd(s1, c.picos_secs)]

\* Add<PreciseTime> for Duration: self + Self::from(t)
add_precise(self, t) ==
    LET o == from_precise(t)
        r == add(self, o.val)
    IN  [val |-> r.val, ovf |-> o.ovf \/ r.ovf]

\* Sub for Duration
sub(self, other) ==
    LET picos == WSub(self.picos, other.picos)
        c     == calc_picos_secs(picos)
        s1    == WSub(self.secs, other.secs)
    IN  [val |-> Duration(WSub(s1, c.picos_secs), c.picos),
         ovf |-> \/ OSub(self.picos, other.picos)
                 \/ OSub(self.secs, other.secs)
                 \/ OSub(s1, c.picos_secs)]

\* Sub<PreciseTime> for Duration: self - Self::from(t)
sub_precise(self, t) ==
    LET o == from_precise(t)
        r == sub(self, o.val)
    IN  [val |-> r.val, ovf |-> o.ovf \/ r.ovf]

\* Mul<T: Into<TimeInt>> for Duration
mul(self, scale) ==
    LET picos == WMul(self.picos, scale)
        secs  == WMul(self.secs, scale)
        c     == calc_picos_secs(picos)
    IN  [val |-> Duration(WAdd(secs, c.picos_secs), c.picos),
         ovf |-> \/ OMul(self.picos, scale)
                 \/ OMul(self.secs, scale)
                 \/ OAdd(secs, c.picos_secs)]

\* Neg for Duration: the negation of an unsigned field is 0 - field
neg(self) ==
    [val |-> Duration(WSub(Zero, self.secs), WSub(Zero, self.picos)),
     ovf |-> OSub(Zero, self.secs) \/ OSub(Zero, self.picos)]

----------------------------------------------------------------------------
(* A caller of the library.  It first obtains a Duration from a            *)
(* constructor (cur, once live) and then applies operators and accessors   *)
(* to it.  overflow_checks is the build: with overflow checks an           *)
(* overflowing operation panics and produces no value, without them the    *)
(* wrapped value is returned.  last records the latest call: its operands  *)
(* and its outcome.  origin is the PreciseTime cur was constructed from,   *)
(* while cur is still that value.                                          *)

VARIABLES overflow_checks, live, cur, origin, last, steps,
          phase, opA, opB, opC, sums

vars == <<overflow_checks, live, cur, origin, last, steps,
          phase, opA, opB, opC, sums>>

callerVars == <<live, cur, origin, last, steps>>
algVars    == <<phase, opA, opB, opC, sums>>

\* bounds of the exploration
MaxSteps == 2
MaxSmall == 2

Time(u, n) == [unit |-> u, n |-> n]

NoDur  == Duration(Zero, Zero)
NoTime == Time("none", Zero)

\* the inputs tried, as lists: magnitudes around the edges of the
\* conversions, right-hand operands, scales and std durations
Mags ==
    << Zero, One, Num(<<2>>), Num(<<1, 500>>),
      Num(<<999, 999, 999, 999>>), Num(<<1, 0, 0, 0, 1>>),
      Num(<<18, 446, 745>>), Num(<<30, 500, 568, 904, 944>>),
      Num(<<9, 223, 372, 36, 854, 775, 808>>), U64Max >>

OperandTimes ==
    << Time("Picoseconds", One), Time("Picoseconds", Num(<<2>>)),
      Time("Picoseconds", Num(<<999, 999, 999, 999>>)),
      Time("Milliseconds", Num(<<1, 500>>)),
      Time("Seconds", One), Time("Seconds", Num(<<2>>)),
      Time("Seconds", U64Max),
      Time("Weeks", Num(<<30, 500, 568, 904, 944>>)) >>

Scales == << Zero, One, Num(<<2>>), Num(<<1, 0>>), Num(<<33, 554, 432>>), U64Max >>

StdDurs == << [secs |-> Zero, nanos |-> Num(<<999, 999, 999>>)],
              [secs |-> U64Max, nanos |-> One] >>

\* what the caller sees of a call that computed r
OkDur(r)  == [kind |-> "ok", dur |-> r.val, num |-> Zero, wrapped |-> r.ovf]
OkNum(r)  == [kind |-> "ok", dur |-> NoDur, num |-> r.val, wrapped |-> r.ovf]
Panic     == [kind |-> "panic", dur |-> NoDur, num |-> Zero, wrapped |-> FALSE]
NoOutcome == [kind |-> "none", dur |-> NoDur, num |-> Zero, wrapped |-> FALSE]

Panics(r) == overflow_checks /\ r.ovf

DurOutcome(r) == IF Panics(r) THEN Panic ELSE OkDur(r)
NumOutcome(r) == IF Panics(r) THEN Panic ELSE OkNum(r)

Call(op, lhs, t, rhs, conv, scale, out) ==
    [op |-> op, lhs |-> lhs, t |-> t, rhs |-> rhs, conv |-> conv,
     scale |-> scale, out |-> out]

\* the caller keeps the value a call returned; a panic returns none
Keep(r, o) ==
    /\ live'   = (live \/ ~Panics(r))
    /\ cur'    = IF Panics(r) THEN cur ELSE r.val
    /\ origin' = IF Panics(r) THEN origin ELSE o

Init ==
    /\ overflow_checks \in BOOLEAN
    /\ live = FALSE
    /\ cur = NoDur
    /\ origin = NoTime
    /\ last = Call("none", NoDur, NoTime, NoDur, FALSE, Zero, NoOutcome)
    /\ steps = 0
    /\ phase = "off"
    /\ opA = NoDur /\ opB = NoDur /\ opC = NoDur
    /\ sums = [ab |-> NoOutcome, ba |-> NoOutcome, ac |-> NoOutcome,
               bc |-> NoOutcome, ab_c |-> NoOutcome, a_bc |-> NoOutcome]

\* Duration::from(t), that is from_weeks(n) .. from_picos(n)
Construct(t) ==
    LET r == from_precise(t)
    IN  /\ ~live
        /\ steps < MaxSteps
        /\ steps' = steps + 1
        /\ last' = Call("from", NoDur, t, NoDur, FALSE, Zero, DurOutcome(r))
        /\ Keep(r, t)
        /\ UNCHANGED <<overflow_checks, algVars>>

\* Duration::from(dur) of a std::time::Duration
ConstructStd(dur) ==
    LET r == from_std(dur)
    IN  /\ ~live
        /\ steps < MaxSteps
        /\ steps' = steps + 1
        /\ last' = Call("from_std", NoDur, NoTime, NoDur, FALSE, Zero, DurOutcome(r))
        /\ Keep(r, NoTime)
        /\ UNCHANGED <<overflow_checks, algVars>>

\* cur + t
AddTime(t) ==
    LET o == from_precise(t)
        r == add_precise(cur, t)
    IN  /\ live
        /\ steps < MaxSteps
        /\ steps' = steps + 1
        /\ last' = Call("add", cur, t, o.val, o.ovf, Zero, DurOutcome(r))
        /\ Keep(r, NoTime)
        /\ UNCHANGED <<overflow_checks, algVars>>

\* cur - t
SubTime(t) ==
    LET o == from_precise(t)
        r == sub_precise(cur, t)
    IN  /\ live
        /\ steps < MaxSteps
        /\ steps' = steps + 1
        /\ last' = Call("sub", cur, t, o.val, o.ovf, Zero, DurOutcome(r))
        /\ Keep(r, NoTime)
        /\ UNCHANGED <<overflow_checks, algVars>>

\* cur * k
MulScale(k) ==
    LET r == mul(cur, k)
    IN  /\ live
        /\ steps < MaxSteps
        /\ steps' = steps + 1
        /\ last' = Call("mul", cur, NoTime, NoDur, FALSE, k, DurOutcome(r))
        /\ Keep(r, NoTime)
        /\ UNCHANGED <<overflow_checks, algVars>>

\* -cur
Negate ==
    LET r == neg(cur)
    IN  /\ live
        /\ steps < MaxSteps
        /\ steps' = steps + 1
        /\ last' = Call("neg", cur, NoTime, NoDur, FALSE, Zero, DurOutcome(r))
        /\ Keep(r, NoTime)
        /\ UNCHANGED <<overflow_checks, algVars>>

\* cur.as_weeks() .. cur.as_picos()
Project(u) ==
    LET r == as_unit(cur, u)
    IN  /\ live
        /\ steps < MaxSteps
        /\ steps' = steps + 1
        /\ last' = Call("as", cur, Time(u, Zero), NoDur, FALSE, Zero, NumOutcome(r))
        /\ UNCHANGED <<overflow_checks, live, cur, origin, algVars>>

----------------------------------------------------------------------------
(* Sums of three Durations.  opA, opB, opC are canonical Durations, with   *)
(* seconds and picoseconds near both ends of their ranges; AddPairs        *)
(* computes the sums of two, AddTriples the two groupings of the sum of    *)
(* three.  A sum whose operand panicked is not computed.                   *)

\* 0, 1, .. n as a list
UpTo(n) == [i \in 1..(n + 1) |-> IF i = 1 THEN Zero ELSE <<i - 1>>]

AlgSecs  == UpTo(MaxSmall) \o <<NSub(U64Max, One), U64Max>>
AlgPicos == UpTo(MaxSmall) \o <<NSub(PICOS_PER_SEC, One)>>

InitAlg ==
    /\ overflow_checks \in BOOLEAN
    /\ live = FALSE
    /\ cur = NoDur
    /\ origin = NoTime
    /\ last = Call("none", NoDur, NoTime, NoDur, FALSE, Zero, NoOutcome)
    /\ steps = 0
    /\ phase = "start"
    /\ \E i \in DOMAIN AlgSecs, j \in DOMAIN AlgPicos :
           opA = Duration(AlgSecs[i], AlgPicos[j])
    /\ \E i \in DOMAIN AlgSecs, j \in DOMAIN AlgPicos :
           opB = Duration(AlgSecs[i], AlgPicos[j])
    /\ \E i \in DOMAIN AlgSecs, j \in DOMAIN AlgPicos :
           opC = Duration(AlgSecs[i], AlgPicos[j])
    /\ sums = [ab |-> NoOutcome, ba |-> NoOutcome, ac |-> NoOutcome,
               bc |-> NoOutcome, ab_c |-> NoOutcome, a_bc |-> NoOutcome]

\* x + y where x is the outcome of an earlier sum
AddAfter(x, y) == IF x.kind = "ok" THEN DurOutcome(add(x.dur, y)) ELSE Panic
AddBefore(x, y) == IF y.kind = "ok" THEN DurOutcome(add(x, y.dur)) ELSE Panic

\* opA + opB, opB + opA, opA + opC, opB + opC
AddPairs ==
    /\ phase = "start"
    /\ phase' = "pairs"
    /\ sums' = [sums EXCEPT !.ab = DurOutcome(add(opA, opB)),
                            !.ba = DurOutcome(add(opB, opA)),
                            !.ac = DurOutcome(add(opA, opC)),
                            !.bc = DurOutcome(add(opB, opC))]
    /\ UNCHANGED <<overflow_checks, callerVars, opA, opB, opC>>

\* (opA + opB) + opC and opA + (opB + opC)
AddTriples ==
    /\ phase = "pairs"
    /\ phase' = "done"
    /\ sums' = [sums EXCEPT !.ab_c = AddAfter(sums.ab, opC),
                            !.a_bc = AddBefore(opA, sums.bc)]
    /\ UNCHANGED <<overflow_checks, callerVars, opA, opB, opC>>

NextAlg == AddPairs \/ AddTriples

SpecAlg == InitAlg /\ [][NextAlg]_vars

Next ==
    \/ \E i \in DOMAIN Units, j \in DOMAIN Mags : Construct(Time(Units[i], Mags[j]))
    \/ \E i \in DOMAIN StdDurs : ConstructStd(StdDurs[i])
    \/ \E i \in DOMAIN OperandTimes : AddTime(OperandTimes[i])
    \/ \E i \in DOMAIN OperandTimes : SubTime(OperandTimes[i])
    \/ \E i \in DOMAIN Scales : MulScale(Scales[i])
    \/ Negate
    \/ \E i \in DOMAIN Units : Project(Units[i])

Spec == Init /\ [][Next]_vars

----------------------------------------------------------------------------
(* Properties.  They are stated in exact arithmetic on naturals.           *)

\* invariant I1 of a Duration
I1(d) == NLt(d.picos, PICOS_PER_SEC)

\* the Duration operator of the latest call was entered: the conversion of
\* its right-hand PreciseTime did not panic
Entered(op) == last.op = op /\ ~(overflow_checks /\ last.conv)

ExactAddSecs(a, b) ==
    NAdd(NAdd(a.secs, b.secs), NDiv(NAdd(a.picos, b.picos), PICOS_PER_SEC))
ExactAddPicos(a, b) == NMod(NAdd(a.picos, b.picos), PICOS_PER_SEC)
ExactAddFits(a, b) == ~Overflows(ExactAddSecs(a, b))

ExactMulSecs(a, k) ==
    NAdd(NMul(a.secs, k), NDiv(NMul(a.picos, k), PICOS_PER_SEC))
ExactMulPicos(a, k) == NMod(NMul(a.picos, k), PICOS_PER_SEC)

ExactSum3Secs ==
    NAdd(NAdd(NAdd(opA.secs, opB.secs), opC.secs),
         NDiv(NAdd(NAdd(opA.picos, opB.picos), opC.picos), PICOS_PER_SEC))

\* C1: every Duration a constructor or an operator (Add, Sub, Mul, Neg)
\* returns has subsecond picoseconds below 10^12.
C1_EveryValueCanonical ==
    (/\ last.out.kind = "ok"
     /\ \/ last.op = "from" \/ last.op = "from_std"
        \/ last.op = "add" \/ last.op = "sub" \/ last.op = "mul" \/ last.op = "neg")
        => I1(last.out.dur)

\* C2: a - b with a < b in the (seconds, picoseconds) order never returns a
\* Duration.
C2_SubBelowNeverReturns ==
    (Entered("sub") /\ cmp(last.lhs, last.rhs) = "Less")
        => last.out.kind # "ok"

\* C3: a + b and a * k whose exact seconds exceed the u64 range never
\* return a Duration.
C3_OverflowNeverReturns ==
    /\ (Entered("add") /\ ~ExactAddFits(last.lhs, last.rhs))
          => last.out.kind # "ok"
    /\ (last.op = "mul" /\ Overflows(ExactMulSecs(last.lhs, last.scale)))
          => last.out.kind # "ok"

\* C4: every unit constructor, for every u64 magnitude, and every accessor,
\* for every Duration satisfying I1, returns a value and none of its
\* arithmetic overflows.
C4_ConversionsTotal ==
    (last.op = "from" \/ (last.op = "as" /\ I1(last.lhs)))
        => (last.out.kind = "ok" /\ ~last.out.wrapped)

\* C5: from_picos(n).as_picos() is n, for every u64 n.
C5_PicosRoundTrip ==
    (last.op = "as" /\ last.t.unit = "Picoseconds" /\ origin.unit = "Picoseconds")
        => (last.out.kind = "ok" /\ last.out.num = origin.n)

C5_Witness ==
    /\ last.op = "as" /\ last.t.unit = "Picoseconds"
    /\ origin = Time("Picoseconds", U64Max)
    /\ last.lhs = Duration(Num(<<18, 446, 744>>), Num(<<73, 709, 551, 615>>))
    /\ last.out.kind = "ok" /\ last.out.num = U64Max

\* C6: for a and b satisfying I1 whose exact seconds sum fits u64, a + b
\* has picoseconds (a.picos + b.picos) mod 10^12 and seconds
\* a.secs + b.secs + (a.picos + b.picos) div 10^12.
C6_AddCarry ==
    (phase # "start" /\ I1(opA) /\ I1(opB) /\ ExactAddFits(opA, opB))
        => /\ sums.ab.kind = "ok"
           /\ sums.ab.dur.secs = ExactAddSecs(opA, opB)
           /\ sums.ab.dur.picos = ExactAddPicos(opA, opB)

\* from_picos(999_999_999_999) + from_picos(2) is one second and one picosecond
C6_Witness ==
    /\ phase = "pairs"
    /\ opA = Duration(Zero, Num(<<999, 999, 999, 999>>))
    /\ opB = Duration(Zero, Num(<<2>>))
    /\ sums.ab.kind = "ok"
    /\ sums.ab.dur = Duration(One, One)

\* C7: for a, b, c satisfying I1 with a < b and with a + c and b + c not
\* overflowing, a + c < b + c.
C7_OrderPreserved ==
    (/\ phase # "start"
     /\ I1(opA) /\ I1(opB) /\ I1(opC)
     /\ cmp(opA, opB) = "Less"
     /\ ExactAddFits(opA, opC) /\ ExactAddFits(opB, opC))
        => /\ sums.ac.kind = "ok" /\ sums.bc.kind = "ok"
           /\ cmp(sums.ac.dur, sums.bc.dur) = "Less"

\* a < b by the seconds alone, and only a + c carries
C7_Witness ==
    /\ phase = "pairs"
    /\ opA = Duration(Zero, Num(<<999, 999, 999, 999>>))
    /\ opB = Duration(One, Zero)
    /\ opC = Duration(Zero, One)
    /\ cmp(opA, opB) = "Less"
    /\ sums.ac.dur = Duration(One, Zero)
    /\ sums.bc.dur = Duration(One, One)

\* C8: for a, b, c satisfying I1 with no sum overflowing, a + b = b + a and
\* (a + b) + c = a + (b + c) as (seconds, picoseconds) pairs.
C8_AddCommutesAssociates ==
    /\ (phase # "start" /\ I1(opA) /\ I1(opB) /\ ExactAddFits(opA, opB))
          => /\ sums.ab.kind = "ok" /\ sums.ba.kind = "ok"
             /\ sums.ab.dur = sums.ba.dur
    /\ (phase = "done" /\ I1(opA) /\ I1(opB) /\ I1(opC) /\ ~Overflows(ExactSum3Secs))
          => /\ sums.ab_c.kind = "ok" /\ sums.a_bc.kind = "ok"
             /\ sums.ab_c.dur = sums.a_bc.dur

\* a + b carries and b + c does not; the sum of three fills the seconds
C8_Witness ==
    /\ phase = "done"
    /\ opA = Duration(NSub(U64Max, One), Num(<<999, 999, 999, 999>>))
    /\ opB = Duration(Zero, One)
    /\ opC = Duration(Zero, Num(<<2>>))
    /\ sums.ab.dur = Duration(U64Max, Zero)
    /\ sums.bc.dur = Duration(Zero, Num(<<3>>))
    /\ sums.ab_c.kind = "ok"
    /\ sums.ab_c.dur = Duration(U64Max, Num(<<2>>))
    /\ sums.a_bc.dur = sums.ab_c.dur

\* C9: for a and b satisfying I1 with a >= b and a.picos < b.picos, a - b
\* has picoseconds a.picos + 10^12 - b.picos and seconds
\* a.secs - b.secs - 1.
C9_SubBorrows ==
    (/\ Entered("sub")
     /\ I1(last.lhs) /\ I1(last.rhs)
     /\ cmp(last.lhs, last.rhs) # "Less"
     /\ NLt(last.lhs.picos, last.rhs.picos))
        => /\ last.out.kind = "ok"
           /\ last.out.dur.picos =
                  NSub(NAdd(last.lhs.picos, PICOS_PER_SEC), last.rhs.picos)
           /\ last.out.dur.secs = NSub(NSub(last.lhs.secs, last.rhs.secs), One)

\* C10: for a satisfying I1 and a u64 k such that
\* a.secs * k + (a.picos * k) div 10^12 fits u64, a * k has that number of
\* seconds and (a.picos * k) mod 10^12 picoseconds, a.picos * k being the
\* exact product.
C10_MulGeneralCarry ==
    (/\ last.op = "mul"
     /\ I1(last.lhs)
     /\ ~Overflows(ExactMulSecs(last.lhs, last.scale)))
        => /\ last.out.kind = "ok"
           /\ last.out.dur.secs = ExactMulSecs(last.lhs, last.scale)
           /\ last.out.dur.picos = ExactMulPicos(last.lhs, last.scale)

====
